---- MODULE Spec2Model ----
(***************************************************************************)
(* The two scripts of the repository as state machines.                    *)
(*                                                                         *)
(* src/task11/script.js: the canvas drawing widget (the stroke model       *)
(* drawing, currentStroke, strokes; the brush controls; the canvas surface *)
(* the draw calls paint; saving as PNG; the debounced resize re-render)    *)
(* and the SVG animation loop. src/unnamed/part_000: the product list with *)
(* its sort and filter functions.                                          *)
(*                                                                         *)
(* One action per event handler or callback; every handler is modelled     *)
(* whole, including the redrawAll() it ends with. Spec is the stroke model *)
(* with the colour control and a re-render that may come at any time; the  *)
(* other parts of the page have a specification each (SpecControls,        *)
(* SpecSave, SpecSvg, SpecResize, SpecProducts), in which the rest of the  *)
(* state stays as it is at load.                                           *)
(***************************************************************************)
EXTENDS Integers, Sequences, FiniteSets, TLC

\* ------------------------------------------------------------------ bounds

\* Recorded points the model holds in strokes and currentStroke together.
MaxPoints == 3

\* Strokes committed while the brush-size slider can move (SpecControls)
\* or images are saved (SpecSave).
MaxStrokes == 1

\* Clicks on the save button in one behaviour.
MaxSaves == 2

\* The time the animation is followed for, in gaps of 1800 ms.
MaxFrameGaps == 6

\* Frame requests the browser holds at once.
MaxFrames == 2

\* The time resizes are followed for, in gaps of 60 ms.
MaxResizeGaps == 8

\* Timers the browser holds at once.
MaxTimers == 2

\* Products in the response of the API.
MaxProducts == 3

\* ------------------------------------------------------------ input values

\* Positions a pointer event can report, in canvas (CSS) coordinates.
Points == {[x |-> 0, y |-> 0], [x |-> 2, y |-> 0]}

\* Positions at which the canvas surface is sampled.
Pixels == Points \cup {[x |-> 1, y |-> 0], [x |-> 1, y |-> 1]}

\* Values of the colour control.
Colors == {"red", "blue"}

\* Values of the brush-size control: the decimal digits of its value string.
SizeValues == {<<1>>, <<2>>}

\* A sample of the surface no draw call has painted since the last clear.
Blank == "blank"

\* JavaScript's null (no in-progress stroke).
Null == [null |-> TRUE]

\* ------------------------------------------------------------------- state

VARIABLES
    drawing,        \* script.js:19  a gesture is open
    currentStroke,  \* script.js:20  Null or [color, size, points]
    strokes,        \* script.js:21  committed strokes, oldest first
    surface,        \* the canvas bitmap: [Pixels -> Colors \cup {Blank}]
    colorPicker,    \* colorPicker.value
    brushSize,      \* brushSize.value (digits); moved by SetBrushSize only
    error,          \* a handler ended in an uncaught error
    lastOp,         \* history: the handler that ran last
    gest,           \* history: what was passed since the last beginStroke
    orig,           \* history: the strokes list a round trip started from
    brushSizeLabel, \* brushSizeLabel.textContent
    toBlobPending,  \* canvas.toBlob callbacks not yet run
    alerts,         \* alert() calls made
    downloads,      \* downloads started by a click on the created link
    now,            \* the time, in milliseconds
    resizeTimeout,  \* script.js:196  0 (null) or the id of the last timer set
    timers,         \* setTimeout timers not yet run or cleared: [id, due]
    svgAnimReq,     \* script.js:222  0 (null) or the id of the last request
    svgX,           \* script.js:223
    svgDir,         \* script.js:224
    svgPlaying,     \* script.js:228
    lastTimestamp,  \* script.js:236  0 (null) or the time of the last frame
    svgSpeed,       \* svgSpeed.value, in tenths
    svgSpeedLabel,  \* svgSpeedLabel.textContent
    transform,      \* movingGroup's transform: Null or [translate |-> x]
    frames,         \* ids of the frame requests not yet run or cancelled
    fetching,       \* part_000:5  fetchProducts is suspended at an await
    allProducts,    \* part_000:8  window.allProducts (unset while fetching)
    productList,    \* the cards of the product-list container, in order
    call,           \* history: the last call of a sort or filter function
    burst,          \* history: the resize events that came close together
    svgHist         \* history: the animation around its last pause

prog == <<drawing, currentStroke, strokes, surface, error>>
controls == <<colorPicker, brushSize>>
save == <<toBlobPending, alerts, downloads>>
resize == <<resizeTimeout, timers>>
anim == <<svgAnimReq, svgX, svgDir, svgPlaying, lastTimestamp, svgSpeed,
          svgSpeedLabel, transform, frames>>
shop == <<fetching, allProducts, productList, call>>
\* What the handlers of the drawing widget's stroke model leave alone.
page == <<brushSizeLabel, save, now, resize, burst, anim, svgHist, shop>>
\* The drawing widget, but for lastOp.
widget == <<prog, controls, gest, orig, brushSizeLabel>>
vars == <<drawing, currentStroke, strokes, surface, colorPicker, brushSize,
          error, lastOp, gest, orig, page>>

\* ----------------------------------------------------------------- helpers

\* parseInt(s, 10) of a string of decimal digits.
RECURSIVE parseIntFrom(_, _, _)
parseIntFrom(digits, i, acc) ==
    IF i > Len(digits) THEN acc
    ELSE parseIntFrom(digits, i + 1, acc * 10 + digits[i])

parseInt(digits) == parseIntFrom(digits, 1, 0)

Front(s) == SubSeq(s, 1, Len(s) - 1)

Last(s) == s[Len(s)]

RECURSIVE CountPoints(_, _)
CountPoints(strs, k) ==
    IF k > Len(strs) THEN 0
    ELSE Len(strs[k].points) + CountPoints(strs, k + 1)

\* Points held by the committed strokes and the in-progress one.
TotalPoints ==
    CountPoints(strokes, 1)
    + (IF currentStroke = Null THEN 0 ELSE Len(currentStroke.points))

\* ------------------------------------------------------------ canvas calls

Sq(n) == n * n

\* The sample q lies within size/2 of the line from a to b (round caps and
\* joins: the stroked region is every position within lineWidth/2 of it).
InStroke(q, a, b, size) ==
    LET dx == b.x - a.x
        dy == b.y - a.y
        wx == q.x - a.x
        wy == q.y - a.y
        len2 == Sq(dx) + Sq(dy)
        t == wx * dx + wy * dy
    IN  IF len2 = 0 \/ t <= 0 THEN 4 * (Sq(wx) + Sq(wy)) <= Sq(size)
        ELSE IF t >= len2 THEN 4 * (Sq(q.x - b.x) + Sq(q.y - b.y)) <= Sq(size)
        ELSE 4 * ((Sq(wx) + Sq(wy)) * len2 - Sq(t)) <= Sq(size) * len2

\* The sample q lies in the disc of radius size/2 about (x, y).
InDot(q, x, y, size) == 4 * (Sq(q.x - x) + Sq(q.y - y)) <= Sq(size)

drawSegment(surf, p1, p2, color, size) ==
    [q \in Pixels |-> IF InStroke(q, p1, p2, size) THEN color ELSE surf[q]]

drawDot(surf, x, y, color, size) ==
    [q \in Pixels |-> IF InDot(q, x, y, size) THEN color ELSE surf[q]]

clearRect(surf) == [q \in Pixels |-> Blank]

\* The loop of redrawAll over one stroke's points, i = 1 .. pts.length - 1
\* (here the indices are 1-based: segments end at 2 .. Len).
RECURSIVE drawSegmentsFrom(_, _, _)
drawSegmentsFrom(surf, stroke, i) ==
    IF i > Len(stroke.points) THEN surf
    ELSE drawSegmentsFrom(
             drawSegment(surf, stroke.points[i - 1], stroke.points[i],
                         stroke.color, stroke.size),
             stroke, i + 1)

drawStroke(surf, stroke) ==
    IF Len(stroke.points) = 1
    THEN drawDot(surf, stroke.points[1].x, stroke.points[1].y,
                 stroke.color, stroke.size)
    ELSE drawSegmentsFrom(surf, stroke, 2)

RECURSIVE drawStrokesFrom(_, _, _)
drawStrokesFrom(surf, strs, k) ==
    IF k > Len(strs) THEN surf
    ELSE drawStrokesFrom(drawStroke(surf, strs[k]), strs, k + 1)

\* redrawAll without the clearRect call.
redrawAll_noClear(surf, strs) == drawStrokesFrom(surf, strs, 1)

\* redrawAll(): clear, then every committed stroke in list order.
redrawAll(surf, strs) == drawStrokesFrom(clearRect(surf), strs, 1)

\* fitCanvasToContainer(): resizing the bitmap clears it; then redrawAll().
fitCanvasToContainer(surf, strs) == redrawAll(clearRect(surf), strs)

\* ---------------------------------------------------------------- handlers

\* beginStroke that returns when a gesture is already open.
beginStroke_guarded(x, y) ==
    IF drawing /\ currentStroke # Null THEN UNCHANGED prog
    ELSE /\ drawing' = TRUE
         /\ currentStroke' = [color |-> colorPicker,
                              size |-> parseInt(brushSize),
                              points |-> <<[x |-> x, y |-> y]>>]
         /\ UNCHANGED <<strokes, surface, error>>

beginStroke(x, y) ==
    /\ drawing' = TRUE
    /\ currentStroke' = [color |-> colorPicker,
                         size |-> parseInt(brushSize),
                         points |-> <<[x |-> x, y |-> y]>>]
    /\ UNCHANGED <<strokes, surface, error>>

\* The guard without its !currentStroke test.
addPointReturnsEarly_flagOnly == ~drawing

\* The guard of addPointToStroke (script.js:59).
addPointReturnsEarly == ~drawing \/ currentStroke = Null

\* addPointToStroke that reads the brush controls again for every point.
addPointToStroke_rereads(x, y) ==
    IF ~drawing \/ currentStroke = Null THEN UNCHANGED prog
    ELSE LET pts == Append(currentStroke.points, [x |-> x, y |-> y])
             len == Len(pts)
         IN  /\ currentStroke' = [color |-> colorPicker,
                                  size |-> parseInt(brushSize),
                                  points |-> pts]
             /\ surface' = drawSegment(surface, pts[len - 1], pts[len],
                                       colorPicker, parseInt(brushSize))
             /\ UNCHANGED <<drawing, strokes, error>>

addPointToStroke(x, y) ==
    IF addPointReturnsEarly THEN UNCHANGED prog
    ELSE IF currentStroke = Null
    THEN \* currentStroke.points on null: TypeError
         error' = TRUE /\ UNCHANGED <<drawing, currentStroke, strokes, surface>>
    ELSE LET pts == Append(currentStroke.points, [x |-> x, y |-> y])
             len == Len(pts)
         IN  /\ currentStroke' = [currentStroke EXCEPT !.points = pts]
             /\ surface' =
                    IF len >= 2
                    THEN drawSegment(surface, pts[len - 1], pts[len],
                                     currentStroke.color, currentStroke.size)
                    ELSE drawDot(surface, x, y,
                                 currentStroke.color, currentStroke.size)
             /\ UNCHANGED <<drawing, strokes, error>>

\* endStroke with strokes.unshift(currentStroke) for strokes.push(...).
endStroke_unshift ==
    IF ~drawing THEN UNCHANGED prog
    ELSE /\ drawing' = FALSE
         /\ IF currentStroke # Null /\ Len(currentStroke.points) > 0
            THEN /\ strokes' = <<currentStroke>> \o strokes
                 /\ currentStroke' = Null
            ELSE UNCHANGED <<strokes, currentStroke>>
         /\ UNCHANGED <<surface, error>>

\* endStroke without currentStroke = null.
endStroke_keepsCurrent ==
    IF ~drawing THEN UNCHANGED prog
    ELSE /\ drawing' = FALSE
         /\ IF currentStroke # Null /\ Len(currentStroke.points) > 0
            THEN strokes' = Append(strokes, currentStroke)
            ELSE UNCHANGED strokes
         /\ UNCHANGED <<currentStroke, surface, error>>

endStroke ==
    IF ~drawing THEN UNCHANGED prog
    ELSE /\ drawing' = FALSE
         /\ IF currentStroke # Null /\ Len(currentStroke.points) > 0
            THEN /\ strokes' = Append(strokes, currentStroke)
                 /\ currentStroke' = Null
            ELSE UNCHANGED <<strokes, currentStroke>>
         /\ UNCHANGED <<surface, error>>

\* undoLast that also drops the in-progress stroke, as clearCanvas does.
undoLast_dropsCurrent ==
    /\ strokes' = IF strokes = <<>> THEN <<>> ELSE Front(strokes)
    /\ currentStroke' = Null
    /\ surface' = redrawAll(surface, strokes')
    /\ UNCHANGED <<drawing, error>>

\* undoLast with strokes.shift() for strokes.pop().
undoLast_shift ==
    /\ strokes' = IF strokes = <<>> THEN <<>> ELSE Tail(strokes)
    /\ surface' = redrawAll(surface, strokes')
    /\ UNCHANGED <<drawing, currentStroke, error>>

\* undoLast that takes the last point off the last stroke (an undo per
\* point, editing the stroke in place).
undoLast_popsPoint ==
    /\ strokes' = IF strokes = <<>> THEN <<>>
                  ELSE [strokes EXCEPT ![Len(strokes)].points = Front(@)]
    /\ surface' = redrawAll(surface, strokes')
    /\ UNCHANGED <<drawing, currentStroke, error>>

undoLast ==
    /\ strokes' = IF strokes = <<>> THEN <<>> ELSE Front(strokes)
    /\ surface' = redrawAll(surface, strokes')
    /\ UNCHANGED <<drawing, currentStroke, error>>

\* clearCanvas without currentStroke = null.
clearCanvas_keepsCurrent ==
    /\ strokes' = <<>>
    /\ surface' = redrawAll(surface, strokes')
    /\ UNCHANGED <<drawing, currentStroke, error>>

clearCanvas ==
    /\ strokes' = <<>>
    /\ currentStroke' = Null
    /\ surface' = redrawAll(surface, strokes')
    /\ UNCHANGED <<drawing, error>>

\* The input handler of the brush-size slider (script.js:183-185): the
\* browser has set brushSize.value, the handler copies it to the label.
brushSizeInput == brushSizeLabel' = brushSize'

\* ------------------------------------------------------------ save as PNG

\* What canvas.toBlob hands its callback: null when the encoding failed.
Blobs == {Null, [type |-> "image/png"]}

\* saveAsImage(): canvas.toBlob queues its callback; nothing else happens
\* until it runs.
saveAsImage ==
    /\ toBlobPending' = toBlobPending + 1
    /\ UNCHANGED <<alerts, downloads>>

\* The toBlob callback that starts the download without testing the blob.
toBlobCallback_noTest(blob) ==
    /\ toBlobPending' = toBlobPending - 1
    /\ downloads' = downloads + 1
    /\ UNCHANGED alerts

\* The callback given to canvas.toBlob (script.js:134-147). The link it adds
\* to the document is removed again and the object URL revoked.
toBlobCallback(blob) ==
    /\ toBlobPending' = toBlobPending - 1
    /\ IF blob = Null
       THEN alerts' = alerts + 1 /\ UNCHANGED downloads
       ELSE downloads' = downloads + 1 /\ UNCHANGED alerts

\* ------------------------------------------------------- timers and frames

\* The delay of the resize timer, in milliseconds.
ResizeDelay == 120

\* A handle from setTimeout or requestAnimationFrame: a positive integer the
\* browser has not in use (the least one, none of `used`).
FreshId(used) ==
    CHOOSE i \in 1 .. Cardinality(used) + 1 :
        i \notin used /\ \A j \in 1 .. i - 1 : j \in used

\* handleResize without its clearTimeout call.
handleResize_noClear ==
    LET id == FreshId({t.id : t \in timers} \cup {resizeTimeout})
    IN  /\ resizeTimeout' = id
        /\ timers' = timers \cup {[id |-> id, due |-> now + ResizeDelay]}

\* handleResize(): clearTimeout(resizeTimeout), then a new timer.
handleResize ==
    LET kept == {t \in timers : t.id # resizeTimeout}
        id == FreshId({t.id : t \in kept} \cup {resizeTimeout})
    IN  /\ resizeTimeout' = id
        /\ timers' = kept \cup {[id |-> id, due |-> now + ResizeDelay]}

\* The callback of the resize timer t (script.js:200-202).
resizeTimerCallback(t) ==
    /\ timers' = timers \ {t}
    /\ surface' = fitCanvasToContainer(surface, strokes)
    /\ UNCHANGED <<resizeTimeout, drawing, currentStroke, strokes, error>>

\* ------------------------------------------------------- the SVG animation

svgMin == 30
svgMax == 770
svgVelocityBase == 100

\* Values of the speed slider, in tenths (1.0x, 2.0x).
SpeedValues == {10, 20}

\* parseFloat(v).toFixed(1) + 'x' of a speed of v tenths: the integer part
\* and one decimal digit.
toFixed1(v) == <<v \div 10, v % 10>>

updateSvgSpeedLabel == svgSpeedLabel' = toFixed1(svgSpeed')

\* The position after dt milliseconds: svgX + svgDir * velocity * dt / 1000
\* with velocity = svgVelocityBase * speed (svgSpeed is in tenths).
Moved(dt) == svgX + svgDir * ((svgVelocityBase * svgSpeed * dt) \div 10000)

\* svgAnimate without the clamp at the two ends (the direction still turns).
Bounced_noClamp(x) ==
    IF x >= svgMax THEN [x |-> x, dir |-> -1]
    ELSE IF x <= svgMin THEN [x |-> x, dir |-> 1]
    ELSE [x |-> x, dir |-> svgDir]

\* The bounce of svgAnimate (script.js:247-253).
Bounced(x) ==
    IF x >= svgMax THEN [x |-> svgMax, dir |-> -1]
    ELSE IF x <= svgMin THEN [x |-> svgMin, dir |-> 1]
    ELSE [x |-> x, dir |-> svgDir]

\* svgAnimate(ts), run as a frame callback while the callbacks of `queue`
\* are still to run.
svgAnimate(ts, queue) ==
    LET last == IF lastTimestamp = 0 THEN ts ELSE lastTimestamp
        b == Bounced(Moved(ts - last))
        id == FreshId(queue \cup {svgAnimReq})
    IN  /\ lastTimestamp' = ts
        /\ svgX' = b.x
        /\ svgDir' = b.dir
        /\ transform' = [translate |-> b.x - 50]
        /\ IF svgPlaying
           THEN svgAnimReq' = id /\ frames' = queue \cup {id}
           ELSE UNCHANGED svgAnimReq /\ frames' = queue
        /\ UNCHANGED <<svgPlaying, svgSpeed, svgSpeedLabel>>

\* startSvg without its test of svgPlaying.
startSvg_unguarded ==
    LET id == FreshId(frames \cup {svgAnimReq})
    IN  /\ svgPlaying' = TRUE
        /\ lastTimestamp' = 0
        /\ svgAnimReq' = id
        /\ frames' = frames \cup {id}
        /\ UNCHANGED <<svgX, svgDir, svgSpeed, svgSpeedLabel, transform>>

\* startSvg without lastTimestamp = null.
startSvg_keepsTimestamp ==
    IF svgPlaying THEN UNCHANGED anim
    ELSE LET id == FreshId(frames \cup {svgAnimReq})
         IN  /\ svgPlaying' = TRUE
             /\ svgAnimReq' = id
             /\ frames' = frames \cup {id}
             /\ UNCHANGED <<lastTimestamp, svgX, svgDir, svgSpeed,
                            svgSpeedLabel, transform>>

startSvg ==
    IF svgPlaying THEN UNCHANGED anim
    ELSE LET id == FreshId(frames \cup {svgAnimReq})
         IN  /\ svgPlaying' = TRUE
             /\ lastTimestamp' = 0
             /\ svgAnimReq' = id
             /\ frames' = frames \cup {id}
             /\ UNCHANGED <<svgX, svgDir, svgSpeed, svgSpeedLabel, transform>>

pauseSvgAnim ==
    /\ svgPlaying' = FALSE
    /\ IF svgAnimReq # 0
       THEN frames' = frames \ {svgAnimReq} /\ svgAnimReq' = 0
       ELSE UNCHANGED <<frames, svgAnimReq>>
    /\ UNCHANGED <<lastTimestamp, svgX, svgDir, svgSpeed, svgSpeedLabel,
                   transform>>

\* -------------------------------------------------------- the product list

Titles == {"cap", "mug"}
Prices == {1, 2}
Categories == {"men", "home"}

\* The records the API returns, with the fields the page uses but the image.
Products == [title : Titles, price : Prices, category : Categories]

\* The card renderProducts makes of a product.
Card(p) == <<p.title, p.category, p.price>>

RECURSIVE Cards(_)
Cards(products) ==
    IF products = <<>> THEN <<>>
    ELSE <<Card(Head(products))>> \o Cards(Tail(products))

\* renderProducts(products): the container emptied, then a card appended
\* for every product in order.
renderProducts(products) == productList' = Cards(products)

\* The comparators of the two sorts: dir = 1 is (a, b) => a.price - b.price,
\* dir = -1 is (a, b) => b.price - a.price.
compare(a, b, dir) == dir * (a.price - b.price)

\* Array.prototype.sort is stable: p, which came after every element of
\* acc, goes behind the elements it does not have to precede.
RECURSIVE insertSorted(_, _, _)
insertSorted(acc, p, dir) ==
    IF acc = <<>> THEN <<p>>
    ELSE IF compare(Last(acc), p, dir) <= 0 THEN Append(acc, p)
    ELSE Append(insertSorted(Front(acc), p, dir), Last(acc))

\* [...list].sort(comparator): a sorted copy.
RECURSIVE sorted(_, _)
sorted(list, dir) ==
    IF list = <<>> THEN <<>>
    ELSE insertSorted(sorted(Front(list), dir), Last(list), dir)

\* list.filter(product => product.category === c)
RECURSIVE filtered(_, _)
filtered(list, c) ==
    IF list = <<>> THEN <<>>
    ELSE (IF Head(list).category = c THEN <<Head(list)>> ELSE <<>>)
         \o filtered(Tail(list), c)

\* sortPriceLow that sorts allProducts itself (no copy).
sortPriceLow_inPlace ==
    IF fetching THEN error' = TRUE /\ UNCHANGED <<allProducts, productList>>
    ELSE /\ allProducts' = sorted(allProducts, 1)
         /\ renderProducts(allProducts')
         /\ UNCHANGED error

\* Before the fetch has set window.allProducts the name is not defined: the
\* call ends in a ReferenceError.
sortPriceLow ==
    IF fetching THEN error' = TRUE /\ UNCHANGED <<allProducts, productList>>
    ELSE /\ renderProducts(sorted(allProducts, 1))
         /\ UNCHANGED <<allProducts, error>>

sortPriceHigh ==
    IF fetching THEN error' = TRUE /\ UNCHANGED <<allProducts, productList>>
    ELSE /\ renderProducts(sorted(allProducts, -1))
         /\ UNCHANGED <<allProducts, error>>

filterCategory(c) ==
    IF fetching THEN error' = TRUE /\ UNCHANGED <<allProducts, productList>>
    ELSE /\ renderProducts(filtered(allProducts, c))
         /\ UNCHANGED <<allProducts, error>>

\* fetchProducts() resuming with the parsed response.
fetchProducts(data) ==
    /\ allProducts' = data
    /\ renderProducts(data)
    /\ UNCHANGED error

\* ----------------------------------------------------------------- history

\* gest records the gesture that is open or has just ended: base, the strokes
\* list when beginStroke ran (emptied by a later undo); color and size, the
\* control values then; pts, the points passed to beginStroke and to every
\* addPointToStroke since (none once a clear discarded them); matched,
\* whether the surface then was what redrawAll() paints; ops, what else
\* happened ("discard": beginStroke replaced an in-progress stroke, "clear",
\* "fit"); undoAt, the number of points passed when undoLast first ran in it
\* (0: it did not); removed, whether an undoLast in it removed a stroke.
NoGesture ==
    [phase |-> "none", base |-> <<>>, color |-> "", size |-> 0,
     pts |-> <<>>, matched |-> FALSE, ops |-> {}, undoAt |-> 0,
     removed |-> FALSE]

\* The gesture record after a handler that is no part of the gesture.
Kept == IF gest.phase = "open" THEN gest ELSE NoGesture

\* The gesture record after undoLast().
AfterUndo ==
    IF gest.phase # "open" THEN NoGesture
    ELSE [gest EXCEPT !.base = <<>>,
                      !.undoAt = IF @ = 0 THEN Len(gest.pts) ELSE @,
                      !.removed = @ \/ strokes # <<>>]

\* The gesture record after clearCanvas() or a re-render.
AfterOp(op) ==
    IF gest.phase # "open" THEN NoGesture
    ELSE [gest EXCEPT !.ops = @ \cup {op},
                      !.pts = IF op = "clear" THEN <<>> ELSE @]

\* burst records the resize events that came less than ResizeDelay after
\* the one before: last, the time of the latest; events, how many (2: two or
\* more); fits, the re-renders since the first of them.
NoBurst == [last |-> 0, events |-> 0, fits |-> 0]

\* svgHist records the animation around its last pause: phase ("paused"
\* after pauseSvgAnim, "resumed" after the startSvg that follows, "framed"
\* after the first frame since); x, svgX when it paused; waited, whether
\* time passed while it was paused; ran, whether a frame had run before.
NoPause == [phase |-> "none", x |-> 0, waited |-> FALSE, ran |-> FALSE]

\* call records the last call of sortPriceLow, sortPriceHigh or
\* filterCategory: category, the argument of a filterCategory; second,
\* whether another of these calls had rendered the list before it.
NoCall == [category |-> "", second |-> FALSE]

Views == {"sortLow", "sortHigh", "filter"}

\* ----------------------------------------------------------------- actions

\* The page around the stroke model once its scripts have run: no save or
\* resize under way, the animation playing with its first frame requested,
\* the product list being fetched. The label of the brush-size slider has the
\* text of the markup (not written by the script: here the empty text).
InitPage ==
    /\ brushSizeLabel = <<>>
    /\ toBlobPending = 0
    /\ alerts = 0
    /\ downloads = 0
    /\ now = 1
    /\ resizeTimeout = 0
    /\ timers = {}
    /\ burst = NoBurst
    /\ svgAnimReq = 1
    /\ svgX = 50
    /\ svgDir = 1
    /\ svgPlaying = TRUE
    /\ lastTimestamp = 0
    /\ svgSpeed = 10
    /\ svgSpeedLabel = toFixed1(svgSpeed)
    /\ transform = Null
    /\ frames = {1}
    /\ svgHist = NoPause
    /\ fetching = TRUE
    /\ allProducts = <<>>
    /\ productList = <<>>
    /\ call = NoCall

\* The state once the script has run and the load event has fitted the
\* canvas. The brush-size slider keeps the value it has here: no action of
\* this specification moves it.
Init ==
    /\ drawing = FALSE
    /\ currentStroke = Null
    /\ strokes = <<>>
    /\ surface = [q \in Pixels |-> Blank]
    /\ colorPicker \in Colors
    /\ brushSize \in SizeValues
    /\ error = FALSE
    /\ lastOp = "init"
    /\ gest = NoGesture
    /\ orig = <<>>
    /\ InitPage

\* mousedown / touchstart on the canvas
BeginStroke ==
    \E p \in Points :
        /\ CountPoints(strokes, 1) < MaxPoints
        /\ beginStroke(p.x, p.y)
        /\ lastOp' = "begin"
        /\ gest' = [phase |-> "open", base |-> strokes,
                    color |-> colorPicker, size |-> parseInt(brushSize),
                    pts |-> <<p>>,
                    matched |-> (surface = redrawAll(surface, strokes)),
                    ops |-> IF drawing /\ currentStroke # Null
                            THEN {"discard"} ELSE {},
                    undoAt |-> 0, removed |-> FALSE]
        /\ UNCHANGED <<controls, orig, page>>

\* mousemove on the window / touchmove on the canvas
AddPointToStroke ==
    \E p \in Points :
        /\ addPointReturnsEarly \/ TotalPoints < MaxPoints
        /\ addPointToStroke(p.x, p.y)
        /\ lastOp' = "extend"
        /\ gest' = IF gest.phase = "open" /\ "clear" \notin gest.ops
                   THEN [gest EXCEPT !.pts = Append(@, p)]
                   ELSE Kept
        /\ UNCHANGED <<controls, orig, page>>

\* mouseup on the window / touchend on the canvas
EndStroke ==
    /\ endStroke
    /\ lastOp' = "end"
    /\ gest' = IF gest.phase = "open" THEN [gest EXCEPT !.phase = "ended"]
               ELSE NoGesture
    /\ UNCHANGED <<controls, orig, page>>

\* click on the undo button
UndoLast ==
    /\ undoLast
    /\ lastOp' = "undo"
    /\ gest' = AfterUndo
    /\ UNCHANGED <<controls, orig, page>>

\* click on the clear button, confirmed
ClearCanvas ==
    /\ clearCanvas
    /\ lastOp' = "clear"
    /\ gest' = AfterOp("clear")
    /\ UNCHANGED <<controls, orig, page>>

\* the resize debounce timer expiring (or the load event): the re-render.
\* The timer itself is not part of this state: a re-render may come at any
\* time.
FitCanvasToContainer ==
    /\ surface' = fitCanvasToContainer(surface, strokes)
    /\ lastOp' = "fit"
    /\ gest' = AfterOp("fit")
    /\ UNCHANGED <<drawing, currentStroke, strokes, error, controls, orig,
                   page>>

\* the user picks another colour
PickColor ==
    \E c \in Colors \ {colorPicker} :
        /\ colorPicker' = c
        /\ lastOp' = "color"
        /\ gest' = Kept
        /\ UNCHANGED <<prog, brushSize, orig, page>>


Next ==
    \/ BeginStroke
    \/ AddPointToStroke
    \/ EndStroke
    \/ UndoLast
    \/ ClearCanvas
    \/ FitCanvasToContainer
    \/ PickColor

Spec == Init /\ [][Next]_vars

\* ------------------------------------------------- the brush controls

\* the user moves the brush-size slider: its input event
SetBrushSize ==
    \E v \in SizeValues \ {brushSize} :
        /\ brushSize' = v
        /\ brushSizeInput
        /\ lastOp' = "size"
        /\ gest' = Kept
        /\ UNCHANGED <<prog, colorPicker, orig, save, now, resize, burst, anim,
                       svgHist, shop>>

\* Gestures with both brush controls moving at any time, until MaxStrokes
\* strokes are committed.
NextControls ==
    \/ Len(strokes) < MaxStrokes /\ BeginStroke
    \/ AddPointToStroke
    \/ EndStroke
    \/ PickColor
    \/ SetBrushSize

SpecControls == Init /\ [][NextControls]_vars

\* ------------------------------------------------------------- saving

\* click on the save button
SaveAsImage ==
    /\ toBlobPending + alerts + downloads < MaxSaves
    /\ saveAsImage
    /\ lastOp' = "save"
    /\ gest' = Kept
    /\ UNCHANGED <<prog, controls, orig, brushSizeLabel, now, resize, burst,
                   anim, svgHist, shop>>

\* the browser runs a toBlob callback, with the encoded image or with null
ToBlobDone ==
    \E blob \in Blobs :
        /\ toBlobPending > 0
        /\ toBlobCallback(blob)
        /\ lastOp' = IF blob = Null THEN "saveFailed" ELSE "saved"
        /\ gest' = Kept
        /\ UNCHANGED <<prog, controls, orig, brushSizeLabel, now, resize,
                       burst, anim, svgHist, shop>>

\* The stroke operations with saves started and finished at any time.
NextSave ==
    \/ Len(strokes) < MaxStrokes /\ BeginStroke
    \/ AddPointToStroke
    \/ EndStroke
    \/ UndoLast
    \/ ClearCanvas
    \/ SaveAsImage
    \/ ToBlobDone

SpecSave == Init /\ [][NextSave]_vars

\* ------------------------------------------------------ the animation

\* Times between two frames, in milliseconds: the page was in a background
\* tab, so the times are long (at 2.0x the group crosses the view in 3.6 s).
FrameGaps == {1800, 3600}

\* time passes
FrameTimePasses ==
    \E d \in FrameGaps :
        /\ now + d <= MaxFrameGaps * 1800
        /\ now' = now + d
        /\ lastOp' = "tick"
        /\ svgHist' = IF svgHist.phase = "paused"
                      THEN [svgHist EXCEPT !.waited = TRUE] ELSE svgHist
        /\ UNCHANGED <<widget, save, resize, burst, anim, shop>>

\* the browser runs a requested frame callback, with the time as timestamp
Frame ==
    \E id \in frames :
        /\ svgAnimate(now, frames \ {id})
        /\ lastOp' = "frame"
        /\ svgHist' = [svgHist EXCEPT
                          !.phase = IF @ = "resumed" THEN "framed"
                                    ELSE IF @ = "framed" THEN "none" ELSE @]
        /\ UNCHANGED <<widget, save, now, resize, burst, shop>>

\* click on the play button
StartSvg ==
    /\ Cardinality(frames) < MaxFrames
    /\ startSvg
    /\ lastOp' = "play"
    /\ svgHist' = IF svgHist.phase = "paused" /\ ~svgPlaying
                  THEN [svgHist EXCEPT !.phase = "resumed"] ELSE svgHist
    /\ UNCHANGED <<widget, save, now, resize, burst, shop>>

\* click on the pause button
PauseSvgAnim ==
    /\ pauseSvgAnim
    /\ lastOp' = "pause"
    /\ svgHist' = IF svgPlaying
                  THEN [phase |-> "paused", x |-> svgX, waited |-> FALSE,
                        ran |-> lastTimestamp # 0]
                  ELSE svgHist
    /\ UNCHANGED <<widget, save, now, resize, burst, shop>>

\* the user moves the speed slider: its input event
SetSvgSpeed ==
    \E v \in SpeedValues \ {svgSpeed} :
        /\ svgSpeed' = v
        /\ updateSvgSpeedLabel
        /\ lastOp' = "speed"
        /\ UNCHANGED <<svgAnimReq, svgX, svgDir, svgPlaying, lastTimestamp,
                       transform, frames, svgHist>>
        /\ UNCHANGED <<widget, save, now, resize, burst, shop>>

NextSvg ==
    \/ FrameTimePasses
    \/ Frame
    \/ StartSvg
    \/ PauseSvgAnim
    \/ SetSvgSpeed

\* The animation alone: the brush controls stay as they are at load.
InitSvg == Init /\ colorPicker = "red" /\ brushSize = <<1>>

SpecSvg == InitSvg /\ [][NextSvg]_vars

\* ------------------------------------------------------------ resizing

\* Times between two events, in milliseconds: half the delay of the resize
\* timer, and the delay.
ResizeGaps == {60, 120}

\* time passes (a timer that is due may still run later)
ResizeTimePasses ==
    \E d \in ResizeGaps :
        /\ now + d <= MaxResizeGaps * 60
        /\ now' = now + d
        /\ lastOp' = "tick"
        /\ UNCHANGED <<widget, save, resize, burst, anim, svgHist, shop>>

\* a resize event of the window
HandleResize ==
    /\ Cardinality(timers) < MaxTimers
    /\ handleResize
    /\ lastOp' = "resize"
    /\ burst' = IF burst.events > 0 /\ now - burst.last < ResizeDelay
                THEN [burst EXCEPT !.last = now,
                                   !.events = IF @ < 2 THEN @ + 1 ELSE @]
                ELSE [last |-> now, events |-> 1, fits |-> 0]
    /\ UNCHANGED <<widget, save, now, anim, svgHist, shop>>

\* a timer set by handleResize expires: the re-render
ResizeTimerFires ==
    \E t \in timers :
        /\ t.due <= now
        /\ resizeTimerCallback(t)
        /\ lastOp' = "fit"
        /\ gest' = AfterOp("fit")
        /\ burst' = [burst EXCEPT !.fits = IF @ < 2 THEN @ + 1 ELSE @]
        /\ UNCHANGED <<controls, orig, brushSizeLabel, save, now, anim,
                       svgHist, shop>>

NextResize ==
    \/ ResizeTimePasses
    \/ HandleResize
    \/ ResizeTimerFires

\* Resizes alone: the brush controls stay as they are at load.
InitResize == Init /\ colorPicker = "red" /\ brushSize = <<1>>

SpecResize == InitResize /\ [][NextResize]_vars

\* ---------------------------------------------------- the product page

\* The responses of the API: lists of at most n products.
ProductLists(n) == UNION {[1 .. k -> Products] : k \in 0 .. n}

\* Arguments of filterCategory: the categories and one no product has.
FilterArgs == Categories \cup {"toys"}

\* the response arrives and is parsed: fetchProducts resumes
FetchDone ==
    \E data \in ProductLists(MaxProducts) :
        /\ fetching
        /\ fetching' = FALSE
        /\ fetchProducts(data)
        /\ lastOp' = "fetch"
        /\ UNCHANGED call
        /\ UNCHANGED <<drawing, currentStroke, strokes, surface, controls,
                       gest, orig, brushSizeLabel, save, now, resize, burst,
                       anim, svgHist>>

SortPriceLow ==
    /\ sortPriceLow
    /\ lastOp' = "sortLow"
    /\ call' = [category |-> "", second |-> lastOp \in Views]
    /\ UNCHANGED <<drawing, currentStroke, strokes, surface, controls, gest,
                   orig, brushSizeLabel, save, now, resize, burst, anim,
                   svgHist, fetching>>

SortPriceHigh ==
    /\ sortPriceHigh
    /\ lastOp' = "sortHigh"
    /\ call' = [category |-> "", second |-> lastOp \in Views]
    /\ UNCHANGED <<drawing, currentStroke, strokes, surface, controls, gest,
                   orig, brushSizeLabel, save, now, resize, burst, anim,
                   svgHist, fetching>>

FilterCategory ==
    \E c \in FilterArgs :
        /\ filterCategory(c)
        /\ lastOp' = "filter"
        /\ call' = [category |-> c, second |-> lastOp \in Views]
        /\ UNCHANGED <<drawing, currentStroke, strokes, surface, controls,
                       gest, orig, brushSizeLabel, save, now, resize, burst,
                       anim, svgHist, fetching>>

NextProducts ==
    \/ FetchDone
    \/ SortPriceLow
    \/ SortPriceHigh
    \/ FilterCategory

\* The product page alone, its fetch under way.
InitProducts == Init /\ colorPicker = "red" /\ brushSize = <<1>>

SpecProducts == InitProducts /\ [][NextProducts]_vars

\* ------------------------------------------------- the undo round trip

\* The point sequences of at most n points (n >= 1).
PointSeqs(n) == UNION {[1 .. k -> Points] : k \in 1 .. n}

\* The strokes of at most n points drawn with brush size `size`.
StrokesUpTo(n, size) ==
    {[color |-> c, size |-> size, points |-> ps] :
        c \in Colors, ps \in PointSeqs(n)}

\* The strokes lists that hold at most n points in all.
RECURSIVE StrokeLists(_, _)
StrokeLists(n, size) ==
    IF n = 0 THEN {<<>>}
    ELSE {<<>>} \cup
         UNION {{<<s>> \o rest : rest \in StrokeLists(n - Len(s.points), size)} :
                    s \in StrokesUpTo(n, size)}

\* Any idle state with a non-empty strokes list, freshly re-rendered.
InitRoundTrip ==
    /\ drawing = FALSE
    /\ currentStroke = Null
    /\ colorPicker \in Colors
    /\ brushSize \in SizeValues
    /\ strokes \in StrokeLists(MaxPoints, parseInt(brushSize)) \ {<<>>}
    /\ surface = redrawAll([q \in Pixels |-> Blank], strokes)
    /\ error = FALSE
    /\ lastOp = "init"
    /\ gest = NoGesture
    /\ orig = strokes
    /\ InitPage

\* undoLast(), then the colour chosen and one gesture drawn and committed.
NextRoundTrip ==
    \/ lastOp = "init" /\ UndoLast
    \/ lastOp \in {"undo", "color"} /\ PickColor
    \/ lastOp \in {"undo", "color"} /\ BeginStroke
    \/ lastOp \in {"begin", "extend"} /\ AddPointToStroke
    \/ lastOp \in {"begin", "extend"} /\ EndStroke

SpecRoundTrip == InitRoundTrip /\ [][NextRoundTrip]_vars

\* ------------------------------------------------------------------ claims

\* The stroke a gesture is to commit: the points passed to beginStroke and
\* addPointToStroke, with the control values read when it began.
GestureStroke == [color |-> gest.color, size |-> gest.size, points |-> gest.pts]

\* C1: after beginStroke(p0), addPointToStroke(p1) .. (pN), endStroke() with
\* no undo, clear or re-render in between, strokes is the list it was before
\* beginStroke with one stroke appended, whose points are p0 .. pN in order
\* and whose color and size are the control values read at beginStroke.
C1_GestureAppendsOneStroke ==
    (gest.phase = "ended" /\ gest.ops \subseteq {"discard"} /\ gest.undoAt = 0)
        => strokes = Append(gest.base, GestureStroke)

\* A gesture of two points committed after an earlier stroke.
C1_Witness ==
    /\ gest.phase = "ended"
    /\ gest.ops = {}
    /\ gest.undoAt = 0
    /\ Len(gest.pts) = 2
    /\ gest.pts[1] # gest.pts[2]
    /\ Len(gest.base) = 1
    /\ Len(strokes) = 2

\* C2: undoLast() removes exactly the last stroke of a non-empty strokes and
\* leaves the earlier strokes, their points and their order as they were;
\* on an empty strokes it leaves strokes empty.
C2_UndoRemovesLast ==
    [][lastOp' = "undo" =>
          IF strokes = <<>> THEN strokes' = <<>>
          ELSE /\ Len(strokes') = Len(strokes) - 1
               /\ \A i \in 1 .. Len(strokes') : strokes'[i] = strokes[i]]_vars

\* undoLast() has run and left an earlier stroke in place.
C2_Witness ==
    /\ lastOp = "undo"
    /\ Len(strokes) = 1
    /\ Len(strokes[1].points) = 2


\* The in-progress stroke as a list: empty when there is none.
InProgress == IF currentStroke = Null THEN <<>> ELSE <<currentStroke>>

\* The mark of one stroke reaches the sample q: the dot of a one-point
\* stroke, or one of the segments between consecutive points.
Marks(stroke, q) ==
    IF Len(stroke.points) = 1
    THEN InDot(q, stroke.points[1].x, stroke.points[1].y, stroke.size)
    ELSE \E i \in 2 .. Len(stroke.points) :
             InStroke(q, stroke.points[i - 1], stroke.points[i], stroke.size)

\* The surface that shows the strokes of strs drawn in order on a cleared
\* surface: each sample has the color of the last stroke whose mark reaches it.
Rendered(strs) ==
    [q \in Pixels |->
        LET over == {k \in 1 .. Len(strs) : Marks(strs[k], q)}
        IN  IF over = {} THEN Blank
            ELSE strs[CHOOSE k \in over : \A j \in over : j <= k].color]

\* Handlers that end with redrawAll().
RedrawOps == {"undo", "clear", "fit"}

\* C3: clearCanvas() leaves strokes empty and no stroke in progress, whatever
\* the state before; until the next beginStroke an addPointToStroke records
\* no point and an endStroke commits nothing.
C3_ClearDiscardsEverything ==
    [][/\ lastOp' = "clear" => (strokes' = <<>> /\ currentStroke' = Null)
       /\ ("clear" \in gest.ops /\ lastOp' \in {"extend", "end"})
              => (strokes' = strokes /\ currentStroke' = Null)]_vars

\* A gesture begun over a committed stroke was cleared and then ended:
\* nothing is committed.
C3_Witness ==
    /\ gest.phase = "ended"
    /\ "clear" \in gest.ops
    /\ gest.base # <<>>
    /\ strokes = <<>>
    /\ currentStroke = Null

\* C4: the canvas surface always shows the strokes of strokes drawn in order
\* on a cleared surface, with the in-progress stroke (if any) on top.
C4_SurfaceShowsDrawing == surface = Rendered(strokes \o InProgress)

\* C5: a gesture with no other operation in it, begun on a surface that
\* shows strokes, leaves the surface that a full redrawAll() paints from
\* the strokes list it ends with (a gesture of one point included).
C5_IncrementalEqualsRedraw ==
    (gest.phase = "ended" /\ gest.ops = {} /\ gest.undoAt = 0 /\ gest.matched)
        => surface = redrawAll(surface, strokes)

C7_BeginDiscardsInProgress ==
    [][/\ (lastOp' = "begin" /\ drawing /\ currentStroke # Null)
              => /\ strokes' = strokes
                 /\ currentStroke' # Null
                 /\ currentStroke'.points = gest'.pts
                 /\ Len(gest'.pts) = 1
                 /\ ~error'
       /\ (/\ gest.phase = "open"
           /\ "discard" \in gest.ops
           /\ "clear" \notin gest.ops
           /\ lastOp' = "end")
              => strokes' = Append(strokes, GestureStroke)]_vars

\* A second beginStroke discarded a stroke, was extended and committed.
C7_Witness ==
    /\ gest.phase = "ended"
    /\ gest.ops = {"discard"}
    /\ Len(gest.pts) = 2
    /\ strokes = <<GestureStroke>>

\* C8: with no stroke in progress addPointToStroke and endStroke raise no
\* error and leave strokes and the empty in-progress slot as they are; no
\* handler ever ends in an error.
C8_NoOpsWithoutStroke ==
    /\ [](~error)
    /\ [][(currentStroke = Null /\ lastOp' \in {"extend", "end"})
              => (strokes' = strokes /\ currentStroke' = Null /\ ~error')]_vars

\* addPointToStroke ran with the drawing flag set and no stroke in progress.
C8_Witness ==
    /\ lastOp = "extend"
    /\ drawing
    /\ currentStroke = Null
    /\ "clear" \in gest.ops
    /\ ~error

\* C9: undoLast() leaves the in-progress stroke and the drawing flag as they
\* are, and the endStroke of a gesture in which undoLast() ran commits the
\* stroke, with every point passed before and after the undo, as the last
\* element of strokes.
C9_UndoKeepsInProgress ==
    [][/\ lastOp' = "undo"
              => (currentStroke' = currentStroke /\ drawing' = drawing)
       /\ (/\ gest.phase = "open"
           /\ gest.undoAt > 0
           /\ "clear" \notin gest.ops
           /\ lastOp' = "end")
              => strokes' = Append(strokes, GestureStroke)]_vars

\* undoLast() removed a stroke after the first point of a gesture, which was
\* then extended and committed.
C9_Witness ==
    /\ gest.phase = "ended"
    /\ gest.undoAt = 1
    /\ Len(gest.pts) = 2
    /\ gest.ops = {}
    /\ gest.removed
    /\ strokes = <<GestureStroke>>

\* C10: from strokes = S followed by s, undoLast() and then committing a
\* stroke with the points, color and size of s gives back the strokes list
\* S followed by s, so redrawAll() paints the surface it painted before.
C10_UndoRecommitRestores ==
    (orig # <<>> /\ gest.phase = "ended" /\ GestureStroke = Last(orig))
        => /\ strokes = orig
           /\ redrawAll(surface, strokes) = redrawAll(surface, orig)

\* The second of two different strokes was undone and drawn again.
C10_Witness ==
    /\ Len(orig) = 2
    /\ orig[1] # orig[2]
    /\ gest.phase = "ended"
    /\ Len(gest.pts) = 2
    /\ GestureStroke = Last(orig)
    /\ strokes = orig

\* C11: the brush color and size are read in beginStroke only. A change of
\* either control leaves the in-progress stroke and every committed stroke
\* as they are; the in-progress stroke keeps the color and size it began
\* with through every later handler, and endStroke commits it with them,
\* whatever the controls show by then; a stroke in strokes keeps its color
\* and size while it is there.
C11_ControlsReadAtBegin ==
    [][/\ lastOp' \in {"color", "size"}
              => (currentStroke' = currentStroke /\ strokes' = strokes)
       /\ lastOp' = "begin"
              => /\ currentStroke'.color = colorPicker
                 /\ currentStroke'.size = parseInt(brushSize)
       /\ (lastOp' # "begin" /\ currentStroke # Null /\ currentStroke' # Null)
              => /\ currentStroke'.color = currentStroke.color
                 /\ currentStroke'.size = currentStroke.size
       /\ (lastOp' = "end" /\ Len(strokes') > Len(strokes))
              => /\ Last(strokes').color = gest.color
                 /\ Last(strokes').size = gest.size
       /\ \A i \in 1 .. Len(strokes) :
              i <= Len(strokes')
                  => /\ strokes'[i].color = strokes[i].color
                     /\ strokes'[i].size = strokes[i].size]_vars

\* Both controls were moved during a gesture of two points and once more
\* after its commit: the committed stroke has the color and size of its
\* beginStroke, the controls (and the slider's label) show other values.
C11_Witness ==
    /\ gest.phase = "none"
    /\ lastOp = "size"
    /\ Len(strokes) = 1
    /\ Len(strokes[1].points) = 2
    /\ strokes[1].color # colorPicker
    /\ strokes[1].size # parseInt(brushSize)
    /\ brushSizeLabel = brushSize

\* C12: saveAsImage() and its toBlob callback, whenever the callback runs and
\* whether it gets an image or null, leave strokes, the in-progress stroke
\* and the drawing flag as they are. With null the user gets one alert and
\* no download starts (with an image: one download, no alert), and after it
\* every stroke operation can still run (beginStroke and addPointToStroke
\* while the model has room for a point).
C12_SaveLeavesDrawing ==
    /\ [][/\ lastOp' \in {"save", "saveFailed", "saved"}
                 => /\ strokes' = strokes
                    /\ currentStroke' = currentStroke
                    /\ drawing' = drawing
                    /\ ~error'
          /\ lastOp' = "save" => (alerts' = alerts /\ downloads' = downloads)
          /\ lastOp' = "saveFailed"
                 => (alerts' = alerts + 1 /\ downloads' = downloads)
          /\ lastOp' = "saved"
                 => (alerts' = alerts /\ downloads' = downloads + 1)]_vars
    /\ [](lastOp = "saveFailed"
              => /\ ENABLED EndStroke
                 /\ ENABLED UndoLast
                 /\ ENABLED ClearCanvas
                 /\ TotalPoints < MaxPoints
                        => (ENABLED BeginStroke /\ ENABLED AddPointToStroke))

\* A save was started during a gesture and failed before the gesture went
\* on: the stroke was extended and committed after the alert.
C12_Witness ==
    /\ alerts = 1
    /\ downloads = 0
    /\ toBlobPending = 0
    /\ gest.phase = "ended"
    /\ gest.ops = {}
    /\ Len(gest.pts) = 2
    /\ strokes = <<GestureStroke>>

\* C13: strokes is empty at the start, and every transition leaves it as it
\* is or changes it in one of three ways: endStroke appends the in-progress
\* stroke at the end, undoLast removes the last stroke, clearCanvas empties
\* the list. No transition (addPointToStroke included) changes the color,
\* size or points of a stroke that stays in strokes.
C13_StrokesMutatedThreeWays ==
    /\ [](lastOp = "init" => strokes = <<>>)
    /\ [][/\ \/ strokes' = strokes
             \/ /\ lastOp' = "end"
                /\ currentStroke # Null
                /\ strokes' = Append(strokes, currentStroke)
             \/ /\ lastOp' = "undo"
                /\ strokes # <<>>
                /\ strokes' = Front(strokes)
             \/ /\ lastOp' = "clear"
                /\ strokes' = <<>>
          /\ \A i \in 1 .. Len(strokes) :
                 i <= Len(strokes') => strokes'[i] = strokes[i]]_vars

\* A point was added to a stroke in progress over a committed stroke, which
\* is as it was committed.
C13_Witness ==
    /\ lastOp = "extend"
    /\ gest.phase = "open"
    /\ gest.ops = {}
    /\ gest.undoAt = 0
    /\ currentStroke # Null
    /\ Len(currentStroke.points) = 2
    /\ Len(gest.base) = 1
    /\ strokes = gest.base

\* C14: the one in-progress slot is filled only between a beginStroke and
\* the next endStroke: whenever the drawing flag is false currentStroke is
\* null; only beginStroke fills an empty slot; after every endStroke
\* currentStroke is null, and the stroke it committed, if any, is the last
\* element of strokes.
C14_OneInProgressStroke ==
    /\ [](~drawing => currentStroke = Null)
    /\ [][/\ (currentStroke = Null /\ lastOp' # "begin")
                 => currentStroke' = Null
          /\ lastOp' = "end"
                 => /\ currentStroke' = Null
                    /\ (drawing /\ currentStroke # Null)
                           => /\ strokes' # <<>>
                              /\ Last(strokes') = currentStroke
                              /\ Front(strokes') = strokes]_vars

\* endStroke has committed a second stroke and emptied the slot.
C14_Witness ==
    /\ lastOp = "end"
    /\ ~drawing
    /\ currentStroke = Null
    /\ gest.phase = "ended"
    /\ Len(strokes) = 2
    /\ strokes[2] = GestureStroke

\* C15: every stroke in strokes has at least one point.
C15_CommittedStrokesHavePoints ==
    \A i \in 1 .. Len(strokes) : Len(strokes[i].points) >= 1

\* Two gestures of beginStroke and endStroke alone are in strokes, each
\* with its one point, after undoLast() removed a third.
C15_Witness ==
    /\ lastOp = "undo"
    /\ Len(strokes) = 2
    /\ Len(strokes[1].points) = 1
    /\ Len(strokes[2].points) = 1

\* C16: between handlers exactly one frame callback is pending while
\* svgPlaying is true (the one svgAnimReq names) and none while it is
\* false; startSvg() while playing and pauseSvgAnim() while stopped change
\* nothing; pauseSvgAnim() leaves no frame pending; a frame callback
\* requests the next frame exactly when svgPlaying is true.
C16_OneFramePending ==
    /\ [](IF svgPlaying THEN frames = {svgAnimReq} /\ svgAnimReq # 0
                        ELSE frames = {} /\ svgAnimReq = 0)
    /\ [][/\ (lastOp' = "play" /\ svgPlaying) => UNCHANGED anim
          /\ (lastOp' = "pause" /\ ~svgPlaying) => UNCHANGED anim
          /\ lastOp' = "pause" => (frames' = {} /\ ~svgPlaying')
          /\ (lastOp' = "play" /\ ~svgPlaying)
                 => (Cardinality(frames') = 1 /\ svgPlaying')
          /\ lastOp' = "frame"
                 => Cardinality(frames') = (IF svgPlaying THEN 1 ELSE 0)]_vars

\* The animation ran, was paused, waited, was started again and has run
\* its first frame since: one frame is pending.
C16_Witness ==
    /\ svgHist.phase = "framed"
    /\ svgHist.waited
    /\ svgHist.ran
    /\ svgPlaying
    /\ Cardinality(frames) = 1

\* C17: at most one resize timer is pending at any time, the one
\* resizeTimeout names, set by the latest resize event; every resize event
\* cancels the pending timer and starts a new one; the re-render runs only
\* when that timer expires, ResizeDelay or more after the latest resize
\* event. So resize events that each come less than ResizeDelay after the
\* one before cause one re-render, after the last of them: until it has
\* run its timer is pending, and no second one follows.
C17_ResizeDebounced ==
    /\ [](/\ Cardinality(timers) <= 1
          /\ \A t \in timers :
                 t.id = resizeTimeout /\ t.due = burst.last + ResizeDelay
          /\ burst.fits <= 1
          /\ (burst.events > 0 /\ burst.fits = 0) => timers # {}
          /\ burst.fits = 1
                 => (timers = {} /\ now >= burst.last + ResizeDelay))
    /\ [][/\ lastOp' = "resize"
                 => timers' = {[id |-> resizeTimeout',
                                due |-> now + ResizeDelay]}
          /\ lastOp' = "fit"
                 => /\ timers # {}
                    /\ timers' = {}
                    /\ now >= burst.last + ResizeDelay
                    /\ surface' = fitCanvasToContainer(surface, strokes)
          /\ lastOp' # "fit" => surface' = surface]_vars

\* Two or more resize events came less than ResizeDelay apart and the
\* re-render has run once since.
C17_Witness ==
    /\ burst.events = 2
    /\ burst.fits = 1
    /\ lastOp = "fit"
    /\ timers = {}

\* The cards of list that show the price p, in order.
CardsPriced(list, p) == SelectSeq(list, LAMBDA c : c[3] = p)

\* C18: once the product list is loaded no sortPriceLow, sortPriceHigh or
\* filterCategory call changes allProducts, and the rendered list is
\* determined by the last call and allProducts, whatever was called
\* before: after sortPriceLow (sortPriceHigh) it shows every product once,
\* in non-decreasing (non-increasing) price order, products of one price in
\* their fetched order; after filterCategory(c) exactly the products of
\* category c, in their fetched order.
C18_ViewsDeriveFromAllProducts ==
    /\ [][~fetching => allProducts' = allProducts]_vars
    /\ []((~fetching /\ lastOp \in {"sortLow", "sortHigh"})
              => /\ Len(productList) = Len(allProducts)
                 /\ \A p \in Prices :
                        CardsPriced(productList, p)
                            = Cards(SelectSeq(allProducts,
                                              LAMBDA q : q.price = p))
                 /\ \A i, j \in 1 .. Len(productList) :
                        i < j => IF lastOp = "sortLow"
                                 THEN productList[i][3] <= productList[j][3]
                                 ELSE productList[i][3] >= productList[j][3])
    /\ []((~fetching /\ lastOp = "filter")
              => productList
                     = Cards(SelectSeq(allProducts,
                                       LAMBDA q : q.category = call.category)))

\* Three products, not in price order and not all of one category, were
\* sorted or filtered and then filtered: the two of the category show in
\* their fetched order, the dearer one first.
C18_Witness ==
    /\ ~fetching
    /\ lastOp = "filter"
    /\ call.second
    /\ Len(allProducts) = 3
    /\ allProducts[1].price > allProducts[3].price
    /\ allProducts[1].category = call.category
    /\ allProducts[2].category # call.category
    /\ allProducts[3].category = call.category
    /\ productList = <<Card(allProducts[1]), Card(allProducts[3])>>

\* C19: in every reachable state svgMin <= svgX <= svgMax and svgDir is 1
\* or -1, for every time between frames and every speed; a frame whose
\* computed position reaches or passes svgMax leaves svgX = svgMax and
\* svgDir = -1, one whose computed position reaches or passes svgMin leaves
\* svgX = svgMin and svgDir = 1, and any other frame leaves svgX at the
\* computed position and svgDir as it was.
C19_PositionWithinBounds ==
    /\ [](svgMin <= svgX /\ svgX <= svgMax /\ svgDir \in {1, -1})
    /\ [][lastOp' = "frame"
              => LET dt == IF lastTimestamp = 0 THEN 0 ELSE now - lastTimestamp
                     x == svgX + svgDir * ((svgVelocityBase * svgSpeed * dt)
                                              \div 10000)
                 IN  IF x >= svgMax THEN svgX' = svgMax /\ svgDir' = -1
                     ELSE IF x <= svgMin THEN svgX' = svgMin /\ svgDir' = 1
                     ELSE svgX' = x /\ svgDir' = svgDir]_vars

\* The group has turned at svgMax and come back to svgMin, where a frame
\* has just turned it again.
C19_Witness ==
    /\ lastOp = "frame"
    /\ svgX = svgMin
    /\ svgDir = 1
    /\ transform = [translate |-> svgMin - 50]

\* C20: time spent paused does not move the group: svgX does not change
\* from pauseSvgAnim() to the next startSvg() and on to the first frame
\* after it, whose callback finds lastTimestamp reset and so computes an
\* elapsed time of zero.
C20_PausedTimeDoesNotMove ==
    /\ [](svgHist.phase \in {"paused", "resumed", "framed"}
              => svgX = svgHist.x)
    /\ [][/\ ~svgPlaying => svgX' = svgX
          /\ (svgHist.phase = "resumed" /\ lastOp' = "frame")
                 => /\ lastTimestamp = 0
                    /\ lastTimestamp' = now
                    /\ svgX' = svgX
                    /\ svgDir' = svgDir]_vars

\* The group was moving between the ends when the animation was paused;
\* time passed, it was started again, and its first frame since has left
\* the group where it was.
C20_Witness ==
    /\ svgHist.phase = "framed"
    /\ svgHist.ran
    /\ svgHist.waited
    /\ svgHist.x \notin {50, svgMin, svgMax}
    /\ svgX = svgHist.x
    /\ lastTimestamp = now

====
